---- MODULE Spec2Model ----
(***************************************************************************)
(* qbit_classifier.py: the post-download hook that classifies a finished   *)
(* torrent by its name and, when it is not stored under the directory of   *)
(* its category, logs in to qBittorrent and relocates / tags it.           *)
(*                                                                         *)
(* One invocation of main() is a sequential program; pc is its position.   *)
(* Every external call (argument parsing, reading the configuration file,  *)
(* makedirs/chmod, each HTTP request) is one step whose outcome is chosen  *)
(* by the environment.                                                     *)
(***************************************************************************)
EXTENDS Integers, Sequences, FiniteSets, TLC

VARIABLES
    pc,            \* position of main(): the next external step
    argv,          \* shape of the command line handed to argparse
    torrent_name,  \* args.name, a sequence of characters
    current_path,  \* args.path
    cwd,           \* working directory of the process (os.path.abspath uses it)
    cfgfile,       \* content of the YAML file on disk
    config,        \* <<>> until load_config returned, then <<its value>>
    dir_i,         \* index of the create_directories loop
    fs,            \* directories on disk: records [path, mode]
    dirs,          \* <<>> until create_directories returned, then <<mapping>>
    category,      \* result of classify_torrent, "none" before
    target_path,   \* <<>> until line 197, then <<dirs[category]>>
    csrf_token,    \* value of the XSRF-TOKEN cookie of the session
    cookies,       \* <<>> until login_qbittorrent returned, then <<jar>>
    requests,      \* HTTP requests issued by this invocation, with their results
    item,          \* the torrent as the control plane holds it
    exit_status,   \* process exit status, -1 while running
    exit_site,     \* the place that ended the process
    logged_error,  \* logger.error was called by this invocation
    uncaught,      \* the process ended through an exception nobody caught
    runs,          \* number of invocations started for this item
    prev           \* results of the earlier invocations

vars == <<pc, argv, torrent_name, current_path, cwd, cfgfile, config, dir_i, fs,
          dirs, category, target_path, csrf_token, cookies, requests, item,
          exit_status, exit_site, logged_error, uncaught, runs, prev>>

(***************************************************************************)
(* Bounds of the model.                                                    *)
(***************************************************************************)
MaxNameLen == 2
MaxRules == 2
MaxRuns == 2

(***************************************************************************)
(* Characters and Python's str.lower.  "U+00DF" is the letter sharp s: it  *)
(* is a lower-case letter, and lower() leaves it alone.                    *)
(***************************************************************************)
Chars == {"s", "S", "1", "U+00DF"}

AsciiChars == {"s", "S", "1"}

Digits == {"1"}

lower_char(c) == IF c = "S" THEN <<"s">> ELSE <<c>>

RECURSIVE lower(_)
lower(s) == IF s = <<>> THEN <<>> ELSE lower_char(Head(s)) \o lower(Tail(s))

RECURSIVE SeqsUpTo(_, _)
SeqsUpTo(S, n) ==
    IF n = 0 THEN {<<>>}
    ELSE LET shorter == SeqsUpTo(S, n - 1)
         IN  shorter \cup {Append(q, x) : q \in shorter, x \in S}

Names == SeqsUpTo(Chars, MaxNameLen)

(***************************************************************************)
(* Regular expressions: a pattern is a sequence of atoms, each a literal   *)
(* character or the class \d.  re.search looks for the pattern at every    *)
(* position of the string (search, not full match).                        *)
(***************************************************************************)
atom_matches(a, c) == IF a = "\\d" THEN c \in Digits ELSE a = c

re_search(pattern, s) ==
    \E start \in 1..(Len(s) + 1) :
        /\ start + Len(pattern) - 1 <= Len(s)
        /\ \A k \in 1..Len(pattern) : atom_matches(pattern[k], s[start + k - 1])

Patterns == {<<"s">>, <<"\\d">>, <<"s", "\\d">>}

RuleLists == SeqsUpTo(Patterns, MaxRules)

\* the loop "for pattern in rules[...]": does some pattern of the list match
RECURSIVE any_match(_, _)
any_match(patterns, s) ==
    IF patterns = <<>> THEN FALSE
    ELSE IF re_search(Head(patterns), s) THEN TRUE
    ELSE any_match(Tail(patterns), s)

classify_torrent_movieFirst(name, cfg) ==
    LET name_lower == lower(name)
    IN  IF any_match(cfg.movie, name_lower) THEN "movie"
        ELSE IF any_match(cfg.tv, name_lower) THEN "tv"
        ELSE "other"

classify_torrent_noLower(name, cfg) ==
    IF any_match(cfg.tv, name) THEN "tv"
    ELSE IF any_match(cfg.movie, name) THEN "movie"
    ELSE "other"

classify_torrent(name, cfg) ==
    LET name_lower == lower(name)
    IN  IF any_match(cfg.tv, name_lower) THEN "tv"
        ELSE IF any_match(cfg.movie, name_lower) THEN "movie"
        ELSE "other"

(***************************************************************************)
(* Paths: [abs, segs].  os.path.join drops the base when the second part   *)
(* is absolute; os.path.abspath prefixes the working directory to a        *)
(* relative path and normalises "." and "..".                              *)
(***************************************************************************)
Path(abs, segs) == [abs |-> abs, segs |-> segs]

path_join(base, sub) ==
    IF sub.abs THEN sub ELSE [abs |-> base.abs, segs |-> base.segs \o sub.segs]

RECURSIVE normpath(_, _)
normpath(segs, acc) ==
    IF segs = <<>> THEN acc
    ELSE IF Head(segs) = "." THEN normpath(Tail(segs), acc)
    ELSE IF Head(segs) = ".."
         THEN normpath(Tail(segs),
                       IF acc = <<>> THEN acc ELSE SubSeq(acc, 1, Len(acc) - 1))
    ELSE normpath(Tail(segs), Append(acc, Head(segs)))

abspath(p) ==
    [abs |-> TRUE,
     segs |-> normpath(IF p.abs THEN p.segs ELSE cwd \o p.segs, <<>>)]

Categories == {"tv", "movie", "other"}

\* iteration order of the dict built at lines 36-41
DirOrder == <<"movie", "tv", "other">>

dirs_of(cfg) ==
    [c \in Categories |->
        CASE c = "movie" -> path_join(cfg.base_dir, cfg.movies_dir)
          [] c = "tv"    -> path_join(cfg.base_dir, cfg.tv_dir)
          [] c = "other" -> path_join(cfg.base_dir, cfg.other_dir)]

(***************************************************************************)
(* The inputs of an invocation.                                            *)
(***************************************************************************)
Labels == [c \in Categories |->
             CASE c = "tv" -> "TV" [] c = "movie" -> "Movies" [] c = "other" -> "Other"]

\* paths sections of the configuration file: an absolute base directory, a
\* relative one, and a tv_dir that is itself absolute
PathConfigs ==
    {[base_dir |-> Path(TRUE, <<"media">>), movies_dir |-> Path(FALSE, <<"movies">>),
      tv_dir |-> Path(FALSE, <<"tv">>), other_dir |-> Path(FALSE, <<"other">>)],
     [base_dir |-> Path(FALSE, <<"media">>), movies_dir |-> Path(FALSE, <<"movies">>),
      tv_dir |-> Path(FALSE, <<"tv">>), other_dir |-> Path(FALSE, <<"other">>)],
     [base_dir |-> Path(TRUE, <<"media">>), movies_dir |-> Path(FALSE, <<"movies">>),
      tv_dir |-> Path(TRUE, <<"tv">>), other_dir |-> Path(FALSE, <<".", "other">>)]}

\* classification_rules sections used by the runs of the whole pipeline
MainRules ==
    {[tv |-> << <<"s", "\\d">> >>, movie |-> << <<"\\d">> >>],
     [tv |-> << <<"s">> >>, movie |-> << <<"s", "\\d">>, <<"\\d">> >>]}

\* the value yaml.safe_load returns for a well-formed file: it holds every
\* key the program reads (paths, classification_rules, categories)
ConfigOf(paths, rules) ==
    [base_dir |-> paths.base_dir, movies_dir |-> paths.movies_dir,
     tv_dir |-> paths.tv_dir, other_dir |-> paths.other_dir,
     tv |-> rules.tv, movie |-> rules.movie, categories |-> Labels]

\* names given to the runs of the whole pipeline: an episode, a film, an
\* upper-case name, a name no rule matches
MainNames == {<<"s", "1">>, <<"1">>, <<"S">>, <<"U+00DF">>}

CurrentPaths ==
    {Path(TRUE, <<"downloads">>),
     Path(TRUE, <<"media", "tv">>),
     Path(TRUE, <<"media", "movies">>),
     Path(TRUE, <<"media", ".", "other">>),
     Path(FALSE, <<"media", "tv">>)}

WorkingDirs == {<<>>, <<"scripts">>}

ArgvShapes == {"ok", "missing_argument", "help"}

\* HTTP status codes the control plane answers with; 0 stands for "no
\* response": requests raised a RequestException (connection error, timeout)
Statuses == {200, 403, 500}

NoResponse == 0

Bodies == {"Ok.", "Fails."}

MutatingOps == {"setLocation", "setCategory", "setAutoManagement"}

Request(op, status, body, token) ==
    [op |-> op, status |-> status, body |-> body, csrf |-> token]

(***************************************************************************)
(* State after construction: nothing has run yet.                          *)
(***************************************************************************)
Fresh ==
    /\ config = <<>>
    /\ dir_i = 1
    /\ dirs = <<>>
    /\ category = "none"
    /\ target_path = <<>>
    /\ csrf_token = ""
    /\ cookies = <<>>
    /\ requests = <<>>
    /\ exit_status = -1
    /\ exit_site = "running"
    /\ logged_error = FALSE
    /\ uncaught = FALSE

Init ==
    /\ pc = "parse_args"
    /\ argv \in ArgvShapes
    /\ torrent_name \in MainNames
    /\ current_path \in CurrentPaths
    /\ cwd \in WorkingDirs
    /\ cfgfile \in {ConfigOf(p, r) : p \in PathConfigs, r \in MainRules}
    /\ fs = {}
    /\ item = [location |-> current_path, category |-> "", auto |-> FALSE]
    /\ runs = 1
    /\ prev = <<>>
    /\ Fresh

\* the process ends: sys.exit(status), or an exception nobody catches
Terminate(status, site, logs, raises) ==
    /\ pc' = "done"
    /\ exit_status' = status
    /\ exit_site' = site
    /\ logged_error' = (logged_error \/ logs)
    /\ uncaught' = raises

Continue(next) ==
    /\ pc' = next
    /\ UNCHANGED <<exit_status, exit_site, logged_error, uncaught>>

inputs == <<argv, torrent_name, current_path, cwd, cfgfile, runs, prev>>

(***************************************************************************)
(* main, lines 172-177: argparse.  A missing positional argument makes     *)
(* parse_args call parser.error, which exits with status 2; -h prints the  *)
(* help and exits with status 0.                                           *)
(***************************************************************************)
ParseArgs ==
    /\ pc = "parse_args"
    /\ CASE argv = "ok" -> Continue("load_config")
         [] argv = "missing_argument" -> Terminate(2, "argparse.error", FALSE, FALSE)
         [] argv = "help" -> Terminate(0, "argparse.help", FALSE, FALSE)
    /\ UNCHANGED <<inputs, config, dir_i, fs, dirs, category, target_path,
                   csrf_token, cookies, requests, item>>

(***************************************************************************)
(* load_config: FileNotFoundError and yaml.YAMLError are caught, logged    *)
(* and turned into sys.exit(1); any other error of open/read (permission   *)
(* denied, a directory, undecodable bytes) is not caught.                  *)
(***************************************************************************)
LoadOutcomes == {"ok", "FileNotFoundError", "YAMLError", "PermissionError"}

LoadConfig ==
    /\ pc = "load_config"
    /\ \E outcome \in LoadOutcomes :
        CASE outcome = "ok" ->
                /\ config' = <<cfgfile>>
                /\ Continue("create_directories")
          [] outcome = "FileNotFoundError" ->
                /\ config' = config
                /\ Terminate(1, "load_config.FileNotFoundError", TRUE, FALSE)
          [] outcome = "YAMLError" ->
                /\ config' = config
                /\ Terminate(1, "load_config.YAMLError", TRUE, FALSE)
          [] outcome = "PermissionError" ->
                /\ config' = config
                /\ Terminate(1, "load_config.uncaught", FALSE, TRUE)
    /\ UNCHANGED <<inputs, dir_i, fs, dirs, category, target_path,
                   csrf_token, cookies, requests, item>>

(***************************************************************************)
(* create_directories: one iteration of the loop of lines 43-51.  makedirs *)
(* (exist_ok) then chmod 0o775; an OSError of either is logged and ends    *)
(* the process with status 1.  The mapping is returned after the last      *)
(* iteration.                                                              *)
(***************************************************************************)
DirOutcomes == {"ok", "makedirs_OSError", "chmod_OSError"}

made(path, mode) == {d \in fs : d.path # path} \cup {[path |-> path, mode |-> mode]}

exists(path) == \E d \in fs : d.path = path

CreateDirectory_ignoreErrors ==
    /\ pc = "create_directories"
    /\ LET all == dirs_of(config[1])
           dir_path == abspath(all[DirOrder[dir_i]])
       IN  \E outcome \in DirOutcomes :
            /\ fs' = IF outcome = "ok" THEN made(dir_path, "0775") ELSE fs
            /\ IF dir_i < Len(DirOrder)
               THEN /\ dir_i' = dir_i + 1
                    /\ dirs' = dirs
                    /\ Continue("create_directories")
               ELSE /\ dir_i' = dir_i
                    /\ dirs' = <<all>>
                    /\ Continue("classify")
    /\ UNCHANGED <<inputs, config, category, target_path, csrf_token, cookies,
                   requests, item>>

CreateDirectory ==
    /\ pc = "create_directories"
    /\ LET all == dirs_of(config[1])
           dir_path == abspath(all[DirOrder[dir_i]])
       IN  \E outcome \in DirOutcomes :
            CASE outcome = "ok" ->
                    /\ fs' = made(dir_path, "0775")
                    /\ IF dir_i < Len(DirOrder)
                       THEN /\ dir_i' = dir_i + 1
                            /\ dirs' = dirs
                            /\ Continue("create_directories")
                       ELSE /\ dir_i' = dir_i
                            /\ dirs' = <<all>>
                            /\ Continue("classify")
              [] outcome = "makedirs_OSError" ->
                    /\ UNCHANGED <<fs, dir_i, dirs>>
                    /\ Terminate(1, "create_directories.OSError", TRUE, FALSE)
              [] outcome = "chmod_OSError" ->
                    \* makedirs succeeded, chmod did not
                    /\ fs' = IF exists(dir_path) THEN fs ELSE made(dir_path, "umask")
                    /\ UNCHANGED <<dir_i, dirs>>
                    /\ Terminate(1, "create_directories.OSError", TRUE, FALSE)
    /\ UNCHANGED <<inputs, config, category, target_path, csrf_token, cookies,
                   requests, item>>

(***************************************************************************)
(* main, lines 195-199: classification and the target of its category.     *)
(***************************************************************************)
Classify ==
    /\ pc = "classify"
    /\ category' = classify_torrent(torrent_name, config[1])
    /\ target_path' = <<dirs[1][category']>>
    /\ Continue("compare")
    /\ UNCHANGED <<inputs, config, dir_i, fs, dirs, csrf_token, cookies,
                   requests, item>>

(***************************************************************************)
(* main, lines 202-204: nothing to do when the item is already stored at   *)
(* the target (both paths made absolute and normalised).                   *)
(***************************************************************************)
already_in_place(current, target) == abspath(current) = abspath(target)

Compare_alwaysMove ==
    /\ pc = "compare"
    /\ Continue("login_get")
    /\ UNCHANGED <<inputs, config, dir_i, fs, dirs, category, target_path,
                   csrf_token, cookies, requests, item>>

Compare ==
    /\ pc = "compare"
    /\ IF already_in_place(current_path, target_path[1])
       THEN Terminate(0, "main.already_in_place", FALSE, FALSE)
       ELSE Continue("login_get")
    /\ UNCHANGED <<inputs, config, dir_i, fs, dirs, category, target_path,
                   csrf_token, cookies, requests, item>>

(***************************************************************************)
(* login_qbittorrent, lines 68-74: the preliminary GET that fetches the    *)
(* XSRF-TOKEN cookie.  Its status is not looked at; a RequestException is  *)
(* caught at line 91, logged, and ends the process with status 1.          *)
(***************************************************************************)
Tokens == {"", "tok"}

LoginGet_ignoreException ==
    /\ pc = "login_get"
    /\ \E status \in Statuses \cup {NoResponse}, token \in Tokens :
        /\ requests' = Append(requests, Request("login_get", status, "", ""))
        /\ csrf_token' = IF status = NoResponse THEN "" ELSE token
        /\ cookies' = IF status = NoResponse THEN <<[xsrf |-> ""]>> ELSE cookies
        /\ Continue(IF status = NoResponse THEN "setLocation" ELSE "login_post")
    /\ UNCHANGED <<inputs, config, dir_i, fs, dirs, category, target_path, item>>

LoginGet ==
    /\ pc = "login_get"
    /\ \E status \in Statuses \cup {NoResponse}, token \in Tokens :
        /\ requests' = Append(requests, Request("login_get", status, "", ""))
        /\ IF status = NoResponse
           THEN /\ csrf_token' = csrf_token
                /\ Terminate(1, "login_qbittorrent.RequestException", TRUE, FALSE)
           ELSE /\ csrf_token' = token
                /\ Continue("login_post")
    /\ UNCHANGED <<inputs, config, dir_i, fs, dirs, category, target_path,
                   cookies, item>>

(***************************************************************************)
(* login_qbittorrent, lines 76-93: the POST of the credentials.  Success   *)
(* is status 200 with the body "Ok."; anything else is logged and ends the *)
(* process with status 1.                                                  *)
(***************************************************************************)
login_accepted_statusOnly(status, body) == status = 200

login_accepted(status, body) == status = 200 /\ body = "Ok."

LoginPost ==
    /\ pc = "login_post"
    /\ \E status \in Statuses \cup {NoResponse}, body \in Bodies :
        /\ requests' = Append(requests,
               Request("login_post", status,
                       IF status = NoResponse THEN "" ELSE body, csrf_token))
        /\ IF status = NoResponse
           THEN /\ cookies' = cookies
                /\ Terminate(1, "login_qbittorrent.RequestException", TRUE, FALSE)
           ELSE IF login_accepted(status, body)
           THEN /\ cookies' = <<[xsrf |-> csrf_token]>>
                /\ Continue("setLocation")
           ELSE /\ cookies' = cookies
                /\ Terminate(1, "login_qbittorrent.rejected", TRUE, FALSE)
    /\ UNCHANGED <<inputs, config, dir_i, fs, dirs, category, target_path,
                   csrf_token, item>>

(***************************************************************************)
(* set_torrent_properties, lines 107-146, with lines 208-216 of main: the  *)
(* three POSTs.  A status other than 200 is logged, the function returns   *)
(* False and main exits with status 1.  The calls are not inside any try:  *)
(* a RequestException leaves main as an uncaught exception (traceback,     *)
(* status 1, nothing logged through the logger); whether the control plane *)
(* acted on the request before the connection failed is not known.         *)
(***************************************************************************)
Mutation(op, applied, next, success_site) ==
    /\ pc = op
    /\ \E status \in Statuses \cup {NoResponse}, acted \in BOOLEAN :
        /\ status \in Statuses => acted = (status = 200)
        /\ requests' = Append(requests, Request(op, status, "", cookies[1].xsrf))
        /\ item' = IF acted THEN applied ELSE item
        /\ IF status = NoResponse
           THEN Terminate(1, "set_torrent_properties.uncaught", FALSE, TRUE)
           ELSE IF status # 200
           THEN Terminate(1, "main.apply_failed", TRUE, FALSE)
           ELSE IF next = "done"
           THEN Terminate(0, success_site, FALSE, FALSE)
           ELSE Continue(next)
    /\ UNCHANGED <<inputs, config, dir_i, fs, dirs, category, target_path,
                   csrf_token, cookies>>

\* a mutation whose status is never looked at
MutationUnchecked(op, applied, next, success_site) ==
    /\ pc = op
    /\ \E status \in Statuses \cup {NoResponse}, acted \in BOOLEAN :
        /\ status \in Statuses => acted = (status = 200)
        /\ requests' = Append(requests, Request(op, status, "", cookies[1].xsrf))
        /\ item' = IF acted THEN applied ELSE item
        /\ IF next = "done"
           THEN Terminate(0, success_site, FALSE, FALSE)
           ELSE Continue(next)
    /\ UNCHANGED <<inputs, config, dir_i, fs, dirs, category, target_path,
                   csrf_token, cookies>>

SetLocation_unchecked ==
    MutationUnchecked("setLocation", [item EXCEPT !.location = target_path[1]],
                      "setCategory", "")

SetLocation ==
    Mutation("setLocation", [item EXCEPT !.location = target_path[1]],
             "setCategory", "")

SetCategory_skipsAutoManagement ==
    Mutation("setCategory", [item EXCEPT !.category = config[1].categories[category]],
             "done", "main.applied")

SetCategory ==
    Mutation("setCategory", [item EXCEPT !.category = config[1].categories[category]],
             "setAutoManagement", "")

SetAutoManagement_unchecked ==
    MutationUnchecked("setAutoManagement", [item EXCEPT !.auto = TRUE],
                      "done", "main.applied")

SetAutoManagement ==
    Mutation("setAutoManagement", [item EXCEPT !.auto = TRUE],
             "done", "main.applied")

(***************************************************************************)
(* The trigger runs the hook again for the same item, with the path the    *)
(* control plane now holds for it.                                         *)
(***************************************************************************)
Rerun ==
    /\ pc = "done"
    /\ runs < MaxRuns
    /\ runs' = runs + 1
    /\ prev' = <<[exit_status |-> exit_status, target_path |-> target_path,
                  requests |-> Len(requests)]>>
    /\ current_path' = item.location
    /\ pc' = "parse_args"
    /\ config' = <<>>
    /\ dir_i' = 1
    /\ dirs' = <<>>
    /\ category' = "none"
    /\ target_path' = <<>>
    /\ csrf_token' = ""
    /\ cookies' = <<>>
    /\ requests' = <<>>
    /\ exit_status' = -1
    /\ exit_site' = "running"
    /\ logged_error' = FALSE
    /\ uncaught' = FALSE
    /\ UNCHANGED <<argv, torrent_name, cwd, cfgfile, fs, item>>

Next ==
    \/ ParseArgs
    \/ LoadConfig
    \/ CreateDirectory
    \/ Classify
    \/ Compare
    \/ LoginGet
    \/ LoginPost
    \/ SetLocation
    \/ SetCategory
    \/ SetAutoManagement
    \/ Rerun

Spec == Init /\ [][Next]_vars

(***************************************************************************)
(* classify_torrent on its own: every name and every pair of rule lists    *)
(* within the bounds, from the state in which main reaches line 195.       *)
(***************************************************************************)
InitClassify ==
    /\ pc = "classify"
    /\ argv = "ok"
    /\ torrent_name \in Names
    /\ current_path = Path(TRUE, <<"downloads">>)
    /\ cwd = <<>>
    /\ \E p \in PathConfigs, tv \in RuleLists, movie \in RuleLists :
        /\ p.base_dir.abs /\ ~p.tv_dir.abs
        /\ cfgfile = ConfigOf(p, [tv |-> tv, movie |-> movie])
    /\ fs = {}
    /\ item = [location |-> current_path, category |-> "", auto |-> FALSE]
    /\ runs = 1
    /\ prev = <<>>
    /\ config = <<cfgfile>>
    /\ dir_i = Len(DirOrder)
    /\ dirs = <<dirs_of(cfgfile)>>
    /\ category = "none"
    /\ target_path = <<>>
    /\ csrf_token = ""
    /\ cookies = <<>>
    /\ requests = <<>>
    /\ exit_status = -1
    /\ exit_site = "running"
    /\ logged_error = FALSE
    /\ uncaught = FALSE

NextClassify == Classify

SpecClassify == InitClassify /\ [][NextClassify]_vars

(***************************************************************************)
(* A run of main always takes its next step: the program is sequential and *)
(* every HTTP call carries timeout=10, so every external step returns.     *)
(***************************************************************************)
MainStep ==
    \/ ParseArgs
    \/ LoadConfig
    \/ CreateDirectory
    \/ Classify
    \/ Compare
    \/ LoginGet
    \/ LoginPost
    \/ SetLocation
    \/ SetCategory
    \/ SetAutoManagement

SpecFair == Spec /\ WF_vars(MainStep)

(***************************************************************************)
(* Vocabulary of the properties.                                           *)
(***************************************************************************)
ApplyOrder == <<"setLocation", "setCategory", "setAutoManagement">>

IsMutation(r) == r.op \in MutatingOps

MutationsIssued == SelectSeq(requests, IsMutation)

Returned200(op) ==
    \E i \in DOMAIN requests : requests[i].op = op /\ requests[i].status = 200

LoginSucceeded ==
    \E i \in DOMAIN requests :
        /\ requests[i].op = "login_post"
        /\ requests[i].status = 200
        /\ requests[i].body = "Ok."

AllApplied == \A op \in MutatingOps : Returned200(op)

Count(op) == Cardinality({i \in DOMAIN requests : requests[i].op = op})

Resolved == target_path # <<>>

FailureSites ==
    {"load_config.FileNotFoundError", "load_config.YAMLError", "load_config.uncaught",
     "create_directories.OSError",
     "login_qbittorrent.RequestException", "login_qbittorrent.rejected",
     "main.apply_failed", "set_torrent_properties.uncaught"}

\* Python's str.upper: the upper case of sharp s is the two letters "SS"
upper_char(c) ==
    IF c = "s" THEN <<"S">>
    ELSE IF c = "U+00DF" THEN <<"S", "S">>
    ELSE <<c>>

RECURSIVE upper(_)
upper(s) == IF s = <<>> THEN <<>> ELSE upper_char(Head(s)) \o upper(Tail(s))

IsAscii(s) == \A i \in DOMAIN s : s[i] \in AsciiChars

TvMatches ==
    \E i \in DOMAIN cfgfile.tv : re_search(cfgfile.tv[i], lower(torrent_name))

MovieMatches ==
    \E i \in DOMAIN cfgfile.movie : re_search(cfgfile.movie[i], lower(torrent_name))

(***************************************************************************)
(* C1 *)
(***************************************************************************)
\* C1, as stated: every invocation ends with status 0 or 1, and the status
\* is 0 exactly when the current path equals the resolved target path or
\* login succeeded and the three mutating requests returned 200.
C1_AsStated ==
    pc = "done" =>
        /\ exit_status \in {0, 1}
        /\ exit_status = 0 <=>
              \/ Resolved /\ current_path = target_path[1]
              \/ LoginSucceeded /\ AllApplied

C1_Exit ==
    (pc = "done" /\ argv = "ok") =>
        /\ exit_status \in {0, 1}
        /\ exit_status = 0 <=>
              \/ Resolved /\ abspath(current_path) = abspath(target_path[1])
              \/ LoginSucceeded /\ AllApplied
        /\ exit_site \in FailureSites <=> exit_status = 1

\* C1, amended: every invocation whose command line argparse accepts ends,
\* with status 0 or 1; the status is 0 exactly when the absolute, normalised
\* current path equals the absolute, normalised target path, or login
\* succeeded and the three mutating requests returned 200; every failure
\* (configuration, directory, authentication, apply) gives status 1.  A
\* command line argparse rejects ends with status 2, -h with status 0.
C1_ExitStatus ==
    /\ [](C1_Exit)
    /\ [](pc = "done" /\ argv = "missing_argument" => exit_status = 2)
    /\ [](pc = "done" /\ argv = "help" => exit_status = 0)
    /\ (pc # "done") ~> (pc = "done")

C1_Witness ==
    /\ pc = "done" /\ argv = "ok" /\ exit_status = 0 /\ runs = 1
    /\ LoginSucceeded /\ AllApplied
    /\ abspath(current_path) # abspath(target_path[1])

(***************************************************************************)
(* C2 *)
(***************************************************************************)
\* C2: a mutating request that returns a status other than 200 is the last
\* request of its invocation: the function returned False and the process
\* ended with status 1; a request that got no response at all is the last
\* one too; and what earlier requests applied stays applied.
C2_ShortCircuit ==
    /\ \A i \in DOMAIN requests :
        (IsMutation(requests[i]) /\ requests[i].status # 200) =>
            /\ i = Len(requests)
            /\ pc = "done"
            /\ exit_status = 1
            /\ requests[i].status \in Statuses => exit_site = "main.apply_failed"
    /\ Returned200("setLocation") => item.location = target_path[1]
    /\ Returned200("setCategory") => item.category = cfgfile.categories[category]

C2_Witness ==
    /\ pc = "done" /\ exit_status = 1 /\ runs = 1
    /\ Len(MutationsIssued) = 2
    /\ MutationsIssued[2].op = "setCategory" /\ MutationsIssued[2].status = 500
    /\ item.location = target_path[1] /\ item.location # current_path
    /\ item.category = "" /\ ~item.auto

(***************************************************************************)
(* C3 *)
(***************************************************************************)
\* C3: the mutating requests of an invocation are issued in the order
\* setLocation, setCategory, setAutoManagement, each once and only after
\* the one before returned 200; when all three return 200 the process ends
\* with status 0, and it ends as "applied" only then.
C3_ThreeStepOrder ==
    LET m == MutationsIssued
    IN  /\ Len(m) <= Len(ApplyOrder)
        /\ \A i \in DOMAIN m :
            /\ m[i].op = ApplyOrder[i]
            /\ i < Len(m) => m[i].status = 200
        /\ (Len(m) = Len(ApplyOrder) /\ m[Len(m)].status = 200) =>
              (pc = "done" /\ exit_status = 0)
        /\ exit_site = "main.applied" =>
              (Len(m) = Len(ApplyOrder) /\ \A i \in DOMAIN m : m[i].status = 200)

C3_Witness ==
    /\ pc = "done" /\ exit_status = 0 /\ exit_site = "main.applied"
    /\ Len(requests) = 5
    /\ item = [location |-> target_path[1], category |-> "Movies", auto |-> TRUE]

(***************************************************************************)
(* C4 *)
(***************************************************************************)
\* C4: when the current path equals the target path of the item's category
\* the invocation issues no HTTP request and ends with status 0; and an
\* invocation started for an item that the invocation before left at its
\* target path issues no HTTP request.
C4_PathEqualityShortCircuit ==
    /\ (Resolved /\ current_path = target_path[1]) =>
          /\ requests = <<>>
          /\ pc \in {"compare", "done"}
          /\ pc = "done" => (exit_status = 0 /\ exit_site = "main.already_in_place")
    /\ (runs > 1 /\ prev[1].target_path # <<>>
                 /\ current_path = prev[1].target_path[1]) =>
          requests = <<>>

C4_Witness ==
    /\ runs = 2
    /\ prev[1].exit_status = 0 /\ prev[1].requests = 5
    /\ pc = "done" /\ exit_status = 0 /\ exit_site = "main.already_in_place"
    /\ current_path = target_path[1]
    /\ requests = <<>>

(***************************************************************************)
(* C5 *)
(***************************************************************************)
\* C5: a name that some tv pattern matches is classified tv, also when a
\* movie pattern matches it; movie is the result exactly when no tv pattern
\* and some movie pattern matches; other exactly when no pattern matches.
C5_TvPrecedence ==
    category # "none" =>
        /\ TvMatches => category = "tv"
        /\ category = "movie" <=> (~TvMatches /\ MovieMatches)
        /\ category = "other" <=> (~TvMatches /\ ~MovieMatches)

C5_Witness ==
    /\ category = "tv"
    /\ Len(cfgfile.tv) = 2 /\ Len(cfgfile.movie) = 2
    /\ ~re_search(cfgfile.tv[1], lower(torrent_name))
    /\ re_search(cfgfile.tv[2], lower(torrent_name))
    /\ re_search(cfgfile.movie[1], lower(torrent_name))

(***************************************************************************)
(* C6 *)
(***************************************************************************)
\* C6, as stated: for every name, the class of the name is the class of
\* the name in upper case.
C6_AsStated ==
    category # "none" =>
        category = classify_torrent(upper(torrent_name), config[1])

\* C6, amended: for every ASCII name, the class of the name is the class of
\* the name in upper case.
C6_CaseInsensitiveAscii ==
    (category # "none" /\ IsAscii(torrent_name)) =>
        category = classify_torrent(upper(torrent_name), config[1])

C6_Witness ==
    /\ category = "tv"
    /\ IsAscii(torrent_name)
    /\ upper(torrent_name) # torrent_name
    /\ lower(torrent_name) # torrent_name

(***************************************************************************)
(* C7 *)
(***************************************************************************)
LoginFailedAt(i) ==
    \/ requests[i].op = "login_get" /\ requests[i].status = NoResponse
    \/ /\ requests[i].op = "login_post"
       /\ ~(requests[i].status = 200 /\ requests[i].body = "Ok.")

\* C7: the session exists only after the credentials request returned 200
\* with the body "Ok."; a login request that fails in any other way is the
\* last request of the invocation, which ends with a status other than 0;
\* neither login request is issued twice; no mutating request is issued
\* without a successful login.
C7_LoginOrDie ==
    /\ cookies # <<>> => LoginSucceeded
    /\ \A i \in DOMAIN requests :
        LoginFailedAt(i) =>
            /\ i = Len(requests)
            /\ pc = "done"
            /\ exit_status # 0
            /\ cookies = <<>>
    /\ Count("login_get") <= 1 /\ Count("login_post") <= 1
    /\ MutationsIssued # <<>> => LoginSucceeded

C7_Witness ==
    /\ pc = "done" /\ exit_status = 1
    /\ Len(requests) = 2
    /\ requests[2] = Request("login_post", 200, "Fails.", "tok")

(***************************************************************************)
(* C8 *)
(***************************************************************************)
\* C8: no exception leaves main: every failure of an external call ends
\* the invocation with a logged error and an explicit exit status 1.
C8_NoUncaughtException ==
    (pc = "done" /\ exit_site \in FailureSites) =>
        (~uncaught /\ logged_error /\ exit_status = 1)

(***************************************************************************)
(* C9 *)
(***************************************************************************)
Provisioned(c) ==
    [path |-> abspath(dirs[1][c]), mode |-> "0775"] \in fs

\* C9: an invocation in which the configuration could not be loaded, or a
\* directory of any of the three categories could not be created or
\* chmod-ed, ends with status 1 without classifying and without issuing any
\* request; classification and requests come only after all three
\* directories have been provisioned.
C9_NoNetworkBeforeProvisioning ==
    /\ exit_site \in {"load_config.FileNotFoundError", "load_config.YAMLError",
                      "load_config.uncaught", "create_directories.OSError"} =>
          /\ requests = <<>>
          /\ category = "none"
          /\ exit_status = 1
    /\ (category # "none" \/ requests # <<>>) =>
          /\ dirs # <<>>
          /\ \A c \in Categories : Provisioned(c)

C9_Witness ==
    /\ pc = "done" /\ exit_site = "create_directories.OSError" /\ exit_status = 1
    /\ DirOrder[dir_i] = "other"
    /\ classify_torrent(torrent_name, cfgfile) = "tv"
    /\ abspath(current_path) # abspath(dirs_of(cfgfile)["tv"])
    /\ requests = <<>>

(***************************************************************************)
(* C10 *)
(***************************************************************************)
\* the state of the per-invocation state machine
Phase ==
    CASE pc \in {"parse_args", "load_config", "create_directories"} -> "START"
      [] pc = "classify" -> "DIRS_ENSURED"
      [] pc = "compare" -> "CLASSIFIED"
      [] pc \in {"login_get", "login_post"} -> "NEEDS_MOVE"
      [] pc \in MutatingOps -> "AUTHENTICATED"
      [] pc = "done" ->
          CASE exit_site = "main.already_in_place" -> "ALREADY_CORRECT"
            [] exit_site = "main.applied" -> "APPLIED"
            [] exit_site \in {"main.apply_failed", "set_torrent_properties.uncaught"}
                 -> "APPLY_FAILED"
            [] exit_site \in {"login_qbittorrent.RequestException",
                              "login_qbittorrent.rejected"} -> "AUTH_FAILED"
            [] exit_site \in {"load_config.FileNotFoundError", "load_config.YAMLError",
                              "load_config.uncaught"} -> "CONFIG_FAILED"
            [] exit_site = "create_directories.OSError" -> "DIRECTORY_FAILED"
            [] exit_site \in {"argparse.error", "argparse.help"} -> "USAGE_EXIT"

Terminal == {"ALREADY_CORRECT", "APPLIED", "APPLY_FAILED", "AUTH_FAILED",
             "CONFIG_FAILED", "DIRECTORY_FAILED", "USAGE_EXIT"}

CommonEdges ==
    {<<"START", "START">>, <<"START", "DIRS_ENSURED">>,
     <<"DIRS_ENSURED", "CLASSIFIED">>,
     <<"CLASSIFIED", "ALREADY_CORRECT">>, <<"CLASSIFIED", "NEEDS_MOVE">>,
     <<"NEEDS_MOVE", "NEEDS_MOVE">>, <<"NEEDS_MOVE", "AUTHENTICATED">>,
     <<"AUTHENTICATED", "AUTHENTICATED">>,
     <<"AUTHENTICATED", "APPLIED">>, <<"AUTHENTICATED", "APPLY_FAILED">>,
     <<"START", "CONFIG_FAILED">>, <<"START", "DIRECTORY_FAILED">>,
     <<"START", "USAGE_EXIT">>}
    \cup {<<t, "START">> : t \in Terminal}

PhaseDiscipline ==
    /\ requests # <<>> =>
          (Resolved /\ abspath(current_path) # abspath(target_path[1]))
    /\ MutationsIssued # <<>> => LoginSucceeded
    /\ Phase = "AUTHENTICATED" => LoginSucceeded

\* C10, as stated: the invocation moves along the edges of the state
\* machine, and a configuration or an authentication failure goes to the
\* failure state from START.
C10_AsStated ==
    [][/\ <<Phase, Phase'>> \in CommonEdges \cup {<<"START", "AUTH_FAILED">>}
       /\ PhaseDiscipline']_vars

\* C10, amended: the invocation moves along the edges of the state machine
\* and ends in one terminal state; login is attempted only after the
\* comparison found a mismatch, a mutating request is issued only after the
\* login of the same invocation succeeded; a configuration failure goes to
\* the failure state from START, an authentication failure goes to it from
\* NEEDS_MOVE.
C10_StateMachine ==
    [][/\ <<Phase, Phase'>> \in CommonEdges \cup {<<"NEEDS_MOVE", "AUTH_FAILED">>}
       /\ PhaseDiscipline']_vars

C10_Witness ==
    /\ Phase = "AUTH_FAILED"
    /\ Resolved /\ abspath(current_path) # abspath(target_path[1])
    /\ Len(requests) = 2

====
